---- MODULE Spec2Model ----
(***************************************************************************)
(* Model of the research-and-podcast workflow of agent/graph.py,           *)
(* agent/utils.py and agent/configuration.py.                              *)
(*                                                                         *)
(* A run is one invocation of the compiled graph.  Strings that the code   *)
(* inspects character by character (the topic, the file name) are          *)
(* sequences of one-character strings; the literal parts of an f-string    *)
(* are single tokens of such a sequence.  Python values whose type matters *)
(* for truthiness are records [t, v]: a type tag and the printed value.    *)
(***************************************************************************)
EXTENDS Integers, Sequences, FiniteSets, TLC

VARIABLES
    environ,        \* os.environ of the process: upper-cased name -> value
    files,          \* the local file system: file name -> content
    pc,             \* per run: the node about to be invoked, or idle/end/failed
    config,         \* per run: the RunnableConfig passed to invoke
    state,          \* per run: the running ResearchState (key -> value)
    configuration,  \* per run: the Configuration resolved by the latest node
    calls,          \* per run: the adapter calls made so far, in order
    entered,        \* per run: the nodes invoked so far, in order
    routed,         \* per run: the decisions of should_analyze_video, in order
    error,          \* per run: the exception that ended the run, or NoError
    output          \* per run: the value returned by invoke, or NoOutput

vars == <<environ, files, pc, config, state, configuration, calls, entered,
          routed, error, output>>

Runs == {"r1", "r2"}
FirstRun == "r1"

----------------------------------------------------------------------------
(* Python values *)

PyNone == [t |-> "none", v |-> ""]
Str(s) == [t |-> "str", v |-> s]
Num(s) == [t |-> "num", v |-> s]

\* bool(x) for the values that occur in a configuration
Truthy(x) ==
    /\ x.t # "none"
    /\ ~(x.t = "str" /\ x.v = "")
    /\ ~(x.t = "num" /\ x.v \in {"0", "0.0"})

EmptyDict == [k \in {} |-> PyNone]

\* dict.get(k, dflt)
DictGet(d, k, dflt) == IF k \in DOMAIN d THEN d[k] ELSE dflt

\* an update that replaces the running state wholesale
Merge_replace(old, upd) == upd

\* the merge of a node's partial update into the running state
Merge(old, upd) ==
    [k \in (DOMAIN old) \cup (DOMAIN upd) |->
        IF k \in DOMAIN upd THEN upd[k] ELSE old[k]]

----------------------------------------------------------------------------
(* agent/configuration.py *)

Fields == {"local_llm_url", "local_model_name", "tts_model",
           "search_temperature", "synthesis_temperature",
           "podcast_script_temperature", "mike_voice", "sarah_voice",
           "tts_channels", "tts_rate", "tts_sample_width"}

Defaults ==
    [local_llm_url |-> Str("http://localhost:1234/v1"),
     local_model_name |-> Str("gemma-3n-e4b-it"),
     tts_model |-> Str("tts-1-hd"),
     search_temperature |-> Num("0.0"),
     synthesis_temperature |-> Num("0.3"),
     podcast_script_temperature |-> Num("0.4"),
     mike_voice |-> Str("Kore"),
     sarah_voice |-> Str("Puck"),
     tts_channels |-> Num("1"),
     tts_rate |-> Num("24000"),
     tts_sample_width |-> Num("2")]

\* f.name.upper()
Upper ==
    [local_llm_url |-> "LOCAL_LLM_URL",
     local_model_name |-> "LOCAL_MODEL_NAME",
     tts_model |-> "TTS_MODEL",
     search_temperature |-> "SEARCH_TEMPERATURE",
     synthesis_temperature |-> "SYNTHESIS_TEMPERATURE",
     podcast_script_temperature |-> "PODCAST_SCRIPT_TEMPERATURE",
     mike_voice |-> "MIKE_VOICE",
     sarah_voice |-> "SARAH_VOICE",
     tts_channels |-> "TTS_CHANNELS",
     tts_rate |-> "TTS_RATE",
     tts_sample_width |-> "TTS_SAMPLE_WIDTH"]

\* config["configurable"] if config and "configurable" in config else {}
Configurable(cfg) ==
    IF DOMAIN cfg # {} /\ "configurable" \in DOMAIN cfg
    THEN cfg["configurable"] ELSE EmptyDict

\* os.environ.get(f.name.upper(), configurable.get(f.name))
ResolvedValue(cfg, env, f) ==
    DictGet(env, Upper[f], DictGet(Configurable(cfg), f, PyNone))

\* cls(**{k: v for k, v in values.items() if v})
from_runnable_config(cfg, env) ==
    [f \in Fields |->
        IF Truthy(ResolvedValue(cfg, env, f))
        THEN ResolvedValue(cfg, env, f) ELSE Defaults[f]]

----------------------------------------------------------------------------
(* Strings the code inspects character by character *)

AsciiLetters ==
    {"A","B","C","D","E","F","G","H","I","J","K","L","M","N","O","P","Q","R",
     "S","T","U","V","W","X","Y","Z","a","b","c","d","e","f","g","h","i","j",
     "k","l","m","n","o","p","q","r","s","t","u","v","w","x","y","z"}
AsciiDigits == {"0","1","2","3","4","5","6","7","8","9"}
\* letters and digits beyond ASCII, written by code point: e-acute, superscript two
NonAsciiAlnum == {"U+00E9", "U+00B2"}
\* the characters str.rstrip() with no argument removes
Whitespace == {" ", "\t", "\n", "\r"}

\* str.isalnum() of a one-character string
isalnum(c) == c \in AsciiLetters \cup AsciiDigits \cup NonAsciiAlnum

\* a trim that was left out
rstrip_none(s) == s

\* str.rstrip()
RECURSIVE rstrip(_)
rstrip(s) ==
    IF s = <<>> THEN <<>>
    ELSE IF s[Len(s)] \in Whitespace THEN rstrip(SubSeq(s, 1, Len(s) - 1))
    ELSE s

\* a replace that turns a run of old into a single new
RECURSIVE replace_collapse(_, _, _)
replace_collapse(s, old, new) ==
    IF s = <<>> THEN <<>>
    ELSE IF Head(s) = old /\ Len(s) > 1 /\ s[2] = old
    THEN replace_collapse(Tail(s), old, new)
    ELSE <<IF Head(s) = old THEN new ELSE Head(s)>>
         \o replace_collapse(Tail(s), old, new)

\* str.replace(old, new) for one-character old and new
RECURSIVE replace(_, _, _)
replace(s, old, new) ==
    IF s = <<>> THEN <<>>
    ELSE <<IF Head(s) = old THEN new ELSE Head(s)>> \o replace(Tail(s), old, new)

\* graph.py line 70: the character test of the generator expression
KeptInSafeTopic(c) == isalnum(c) \/ c \in {" ", "-", "_"}

\* graph.py line 70: "".join(c for c in topic if ...), left to right
RECURSIVE JoinKept(_)
JoinKept(s) ==
    IF s = <<>> THEN <<>>
    ELSE (IF KeptInSafeTopic(Head(s)) THEN <<Head(s)>> ELSE <<>>)
         \o JoinKept(Tail(s))

\* graph.py line 70
safe_topic(topic) == rstrip(JoinKept(topic))

\* graph.py line 71
PodcastFilename(topic) ==
    <<"research_podcast_">> \o replace(safe_topic(topic), " ", "_") \o <<".wav">>

----------------------------------------------------------------------------
(* agent/utils.py: the adapters *)

\* the ChatOpenAI client built by get_local_llm
get_local_llm(cfgn) ==
    [base_url |-> cfgn["local_llm_url"],
     model |-> cfgn["local_model_name"],
     temperature |-> cfgn["synthesis_temperature"]]

\* what a text-generation call can do: raise, or return a completion
LlmOutcomes == {"raise", "empty", "text"}

\* the stub completions, one fixed string per purpose
Completion(purpose, outcome) ==
    IF outcome = "empty" THEN ""
    ELSE CASE purpose = "search" -> "findings"
           [] purpose = "video_analysis" -> "video summary"
           [] purpose = "report_synthesis" -> "synthesis"
           [] purpose = "dialogue" -> "Tim: ... Monica: ..."

\* the record of one local_llm.invoke(prompt) call and of what it did
LlmCall(llm, purpose, prompt, lo) ==
    [adapter |-> "llm", purpose |-> purpose, model |-> llm.model,
     temperature |-> llm.temperature, voices |-> <<>>, prompt |-> prompt,
     outcome |-> lo]

\* what the TTS call can do: raise; return a response without candidates or
\* without inline_data; return inline_data whose data is None; return audio
TtsOutcomes == {"raise", "no_payload", "null_data", "audio"}

\* the record of the genai_client.models.generate_content call and of what
\* it did
TtsCall(cfgn, script, to) ==
    [adapter |-> "tts", purpose |-> "speech", model |-> cfgn["tts_model"],
     temperature |-> PyNone,
     voices |-> <<cfgn["mike_voice"], cfgn["sarah_voice"]>>,
     prompt |-> <<"TTS the following conversation between Tim and Monica:\n",
                  script>>,
     outcome |-> to]

\* the stub PCM buffer returned by the TTS adapter
AudioData == <<"pcm1", "pcm2">>
Bytes(b) == [t |-> "bytes", v |-> b]

\* a recording left by an earlier process
OldAudio == <<"old1", "old2", "old3">>

\* a wave file: whether the RIFF header is on disk, the frames on disk, and
\* the format parameters of the header
WavContent(header, frames, fmt) ==
    [header |-> header, frames |-> frames, fmt |-> fmt]

\* what the file system can do to wave_file: refuse the open, fail during
\* writeframes after n frames (header on disk or not), or complete
FsOutcomes ==
    {[kind |-> "open_fails", n |-> 0, header |-> FALSE],
     [kind |-> "ok", n |-> Len(AudioData), header |-> TRUE]}
    \cup [kind : {"write_fails"}, n : 0 .. (Len(AudioData) - 1), header : BOOLEAN]

\* the file name create_podcast_discussion has by default
DefaultFilename == <<"research_podcast.wav">>

\* a wave_file that is not handed the file name of the node and writes to
\* the default one
wave_file_default_name(fs, filename, pcm, fmt, fso) ==
    IF fso.kind = "open_fails"
    THEN [raised |-> TRUE, kind |-> "OSError", files |-> fs]
    ELSE IF pcm.t = "none"
    THEN [raised |-> TRUE, kind |-> "TypeError",
          files |-> Merge(fs, [n \in {DefaultFilename} |->
                                 WavContent(fso.kind = "ok", <<>>, fmt)])]
    ELSE IF fso.kind = "write_fails"
    THEN [raised |-> TRUE, kind |-> "OSError",
          files |-> Merge(fs, [n \in {DefaultFilename} |->
                                 WavContent(fso.header, SubSeq(pcm.v, 1, fso.n), fmt)])]
    ELSE [raised |-> FALSE, kind |-> "",
          files |-> Merge(fs, [n \in {DefaultFilename} |->
                                 WavContent(TRUE, pcm.v, fmt)])]

\* wave_file(filename, pcm, channels, rate, sample_width):
\* wave.open(filename, "wb") creates or truncates the file, writeframes
\* writes header and frames, leaving the with block closes the file
wave_file(fs, filename, pcm, fmt, fso) ==
    IF fso.kind = "open_fails"
    THEN [raised |-> TRUE, kind |-> "OSError", files |-> fs]
    ELSE IF pcm.t = "none"
    THEN [raised |-> TRUE, kind |-> "TypeError",
          files |-> Merge(fs, [n \in {filename} |->
                                 WavContent(fso.kind = "ok", <<>>, fmt)])]
    ELSE IF fso.kind = "write_fails"
    THEN [raised |-> TRUE, kind |-> "OSError",
          files |-> Merge(fs, [n \in {filename} |->
                                 WavContent(fso.header, SubSeq(pcm.v, 1, fso.n), fmt)])]
    ELSE [raised |-> FALSE, kind |-> "",
          files |-> Merge(fs, [n \in {filename} |-> WavContent(TRUE, pcm.v, fmt)])]

----------------------------------------------------------------------------
(* agent/utils.py: report and podcast *)

\* the value a function hands back to its caller, or the exception it raised
Returned(value, madeCalls, fs) ==
    [raised |-> FALSE, kind |-> "", value |-> value, calls |-> madeCalls,
     files |-> fs]
Raised(kind, madeCalls, fs) ==
    [raised |-> TRUE, kind |-> kind, value |-> EmptyDict, calls |-> madeCalls,
     files |-> fs]

\* a report whose URL line shows the sources and whose sources block is empty
ReportText_no_url(topic, synthesis_text, video_url, search_sources_text) ==
    <<"# Research Report: ", topic,
      "\n\n## Executive Summary\n\n", synthesis_text,
      "\n\n## Video Source\n- **URL**: ", search_sources_text,
      "\n\n## Additional Sources\n", "",
      "\n\n---\n*Report generated using multi-modal AI research combining web search and video analysis*\n">>

\* the markdown report of create_research_report, as the segments of its f-string
ReportText(topic, synthesis_text, video_url, search_sources_text) ==
    <<"# Research Report: ", topic,
      "\n\n## Executive Summary\n\n", synthesis_text,
      "\n\n## Video Source\n- **URL**: ", video_url,
      "\n\n## Additional Sources\n", search_sources_text,
      "\n\n---\n*Report generated using multi-modal AI research combining web search and video analysis*\n">>

\* create_research_report; lo is what the text-generation call does
create_research_report(topic, search_text, video_text, search_sources_text, video_url, cfgn, fs, lo) ==
    LET local_llm == get_local_llm(cfgn)
        call == LlmCall(local_llm, "report_synthesis",
                        <<topic, search_text, video_text>>, lo)
        synthesis_text == Completion("report_synthesis", lo)
    IN  IF lo = "raise" THEN Raised("AdapterUnavailable", <<call>>, fs)
        ELSE Returned([report |-> ReportText(topic, synthesis_text, video_url,
                                             search_sources_text),
                       synthesis_text |-> synthesis_text],
                      <<call>>, fs)

\* the format parameters handed to wave_file
WaveFormat(cfgn) ==
    <<cfgn["tts_channels"], cfgn["tts_rate"], cfgn["tts_sample_width"]>>

\* create_podcast_discussion; lo, to and fso are what the text-generation
\* call, the TTS call and the file system do
create_podcast_discussion(topic, search_text, video_text, search_sources_text, video_url, filename, cfgn, fs, lo, to, fso) ==
    LET local_llm == get_local_llm(cfgn)
        call1 == LlmCall(local_llm, "dialogue",
                         <<topic, search_text, video_text>>, lo)
        podcast_script == Completion("dialogue", lo)
        call2 == TtsCall(cfgn, podcast_script, to)
        audio_data == IF to = "null_data" THEN PyNone ELSE Bytes(AudioData)
        written == wave_file(fs, filename, audio_data, WaveFormat(cfgn), fso)
    IN  IF lo = "raise" THEN Raised("AdapterUnavailable", <<call1>>, fs)
        ELSE IF to = "raise"
        THEN Raised("AdapterUnavailable", <<call1, call2>>, fs)
        ELSE IF to = "no_payload"
        THEN Raised("AdapterResponseInvalid", <<call1, call2>>, fs)
        ELSE IF written.raised
        THEN Raised(written.kind, <<call1, call2>>, written.files)
        ELSE Returned([podcast_script |-> podcast_script,
                       podcast_filename |-> filename],
                      <<call1, call2>>, written.files)

----------------------------------------------------------------------------
(* agent/graph.py: the nodes *)

NoVideoSentinel == "No video provided for analysis."
SourcesSentinel == "Sources synthesized by local model."

\* bool(state.get("video_url"))
HasVideoUrl(st) == "video_url" \in DOMAIN st /\ st["video_url"] # ""

search_research_node(st, cfg, env, fs, lo) ==
    LET cfgn == from_runnable_config(cfg, env)
        topic == st["topic"]
        local_llm == get_local_llm(cfgn)
        call == LlmCall(local_llm, "search", <<topic>>, lo)
    IN  IF lo = "raise" THEN Raised("AdapterUnavailable", <<call>>, fs)
        ELSE Returned([search_text |-> Completion("search", lo),
                       search_sources_text |-> SourcesSentinel],
                      <<call>>, fs)

\* a Video Analysis node without the guard: it always calls the adapter
analyze_video_node_noguard(st, cfg, env, fs, lo) ==
    LET cfgn == from_runnable_config(cfg, env)
        topic == st["topic"]
        local_llm == get_local_llm(cfgn)
        call == LlmCall(local_llm, "video_analysis",
                        <<DictGet(st, "video_url", ""), topic>>, lo)
    IN  IF lo = "raise" THEN Raised("AdapterUnavailable", <<call>>, fs)
        ELSE Returned([video_text |-> Completion("video_analysis", lo)],
                      <<call>>, fs)

analyze_video_node(st, cfg, env, fs, lo) ==
    LET cfgn == from_runnable_config(cfg, env)
        topic == st["topic"]
        local_llm == get_local_llm(cfgn)
        call == LlmCall(local_llm, "video_analysis", <<st["video_url"], topic>>,
                        lo)
    IN  IF ~HasVideoUrl(st)
        THEN Returned([video_text |-> NoVideoSentinel], <<>>, fs)
        ELSE IF lo = "raise" THEN Raised("AdapterUnavailable", <<call>>, fs)
        ELSE Returned([video_text |-> Completion("video_analysis", lo)],
                      <<call>>, fs)

create_report_node(st, cfg, env, fs, lo) ==
    create_research_report(st["topic"],
                           DictGet(st, "search_text", ""),
                           DictGet(st, "video_text", ""),
                           DictGet(st, "search_sources_text", ""),
                           DictGet(st, "video_url", ""),
                           from_runnable_config(cfg, env), fs, lo)

\* a Podcast node that avoids overwriting: it picks another name when the
\* file exists
create_podcast_node_unique(st, cfg, env, fs, lo, to, fso) ==
    create_podcast_discussion(st["topic"],
                              DictGet(st, "search_text", ""),
                              DictGet(st, "video_text", ""),
                              DictGet(st, "search_sources_text", ""),
                              DictGet(st, "video_url", ""),
                              IF PodcastFilename(st["topic"]) \in DOMAIN fs
                              THEN PodcastFilename(st["topic"]) \o <<".1">>
                              ELSE PodcastFilename(st["topic"]),
                              from_runnable_config(cfg, env), fs, lo, to, fso)

create_podcast_node(st, cfg, env, fs, lo, to, fso) ==
    create_podcast_discussion(st["topic"],
                              DictGet(st, "search_text", ""),
                              DictGet(st, "video_text", ""),
                              DictGet(st, "search_sources_text", ""),
                              DictGet(st, "video_url", ""),
                              PodcastFilename(st["topic"]),
                              from_runnable_config(cfg, env), fs, lo, to, fso)

\* a router that never selects the Video Analysis node
should_analyze_video_never(st) == "create_report"

\* a router that always selects the Video Analysis node
should_analyze_video_always(st) == "analyze_video"

\* a router that also looks at the search results
should_analyze_video_by_text(st) ==
    IF HasVideoUrl(st) /\ DictGet(st, "search_text", "") # ""
    THEN "analyze_video" ELSE "create_report"

should_analyze_video(st) ==
    IF HasVideoUrl(st) THEN "analyze_video" ELSE "create_report"

----------------------------------------------------------------------------
(* agent/graph.py: the graph, run by the engine *)

Nodes == {"search_research", "analyze_video", "create_report", "create_podcast"}

\* edges that leave the Report node for END, past the Podcast node
EdgeFrom_skip(node) ==
    CASE node = "analyze_video" -> "create_report"
      [] node = "create_report" -> "end"
      [] node = "create_podcast" -> "end"

\* the unconditional edges of create_research_graph
EdgeFrom(node) ==
    CASE node = "analyze_video" -> "create_report"
      [] node = "create_report" -> "create_podcast"
      [] node = "create_podcast" -> "end"

\* the keys of the state each node function reads
Reads(node) ==
    CASE node = "search_research" -> {"topic"}
      [] node = "analyze_video" -> {"video_url", "topic"}
      [] node = "create_report" ->
            {"topic", "search_text", "video_text", "search_sources_text",
             "video_url"}
      [] node = "create_podcast" ->
            {"topic", "search_text", "video_text", "search_sources_text",
             "video_url"}

\* the keys of the run input
InputFields == {"topic", "video_url"}

\* the keys of ResearchStateOutput
OutputFields == {"report", "synthesis_text", "podcast_script", "podcast_filename"}

NoError == [node |-> "", kind |-> ""]
NoOutput == [returned |-> FALSE, value |-> EmptyDict]

\* the projection of the final state to the output schema
ProjectOutput(st) ==
    [returned |-> TRUE,
     value |-> [k \in OutputFields \cap DOMAIN st |-> st[k]]]

\* an engine that swallows the exception of a node and follows the edge
OnRaise_swallow(node) ==
    IF node = "search_research" THEN "create_report" ELSE EdgeFrom(node)

\* an engine that returns the state reached so far when a node raised
OnRaise_partial(node) == "end"

\* where a run goes when a node raised: no node catches the exception, it
\* leaves invoke
OnRaise(node) == "failed"

\* one step of the engine: the node was invoked and gave res; a raised
\* exception ends the run, a returned update is merged and the edge followed
EngineStep(r, node, res, routes) ==
    LET merged == Merge(state[r], res.value)
        next == IF res.raised THEN OnRaise(node)
                ELSE IF routes THEN should_analyze_video(merged)
                ELSE EdgeFrom(node)
    IN  /\ entered' = [entered EXCEPT ![r] = Append(@, node)]
        /\ calls' = [calls EXCEPT ![r] = @ \o res.calls]
        /\ configuration' =
              [configuration EXCEPT ![r] = from_runnable_config(config[r], environ)]
        /\ files' = res.files
        /\ pc' = [pc EXCEPT ![r] = next]
        /\ state' = [state EXCEPT ![r] = merged]
        /\ routed' = [routed EXCEPT ![r] =
                         IF routes /\ ~res.raised THEN Append(@, next) ELSE @]
        /\ error' = [error EXCEPT ![r] =
                        IF res.raised THEN [node |-> node, kind |-> res.kind]
                        ELSE @]
        /\ output' = [output EXCEPT ![r] =
                         IF next = "end" THEN ProjectOutput(merged) ELSE @]
        /\ UNCHANGED <<environ, config>>

----------------------------------------------------------------------------
(* The inputs of a run *)

\* the longest topic the file-name specification draws
MaxTopicLen == 3

\* the characters topics are drawn from: a letter, a space, a stripped
\* punctuation mark, a tab and a non-ASCII letter
TopicAlphabet == {"a", " ", "&", "\t", "U+00E9"}

RECURSIVE SeqsUpTo(_, _)
SeqsUpTo(S, n) ==
    IF n = 0 THEN {<<>>}
    ELSE LET shorter == SeqsUpTo(S, n - 1)
         IN  shorter \cup {Append(s, c) : s \in shorter, c \in S}

\* the non-empty topics of at most MaxTopicLen characters
Topics == SeqsUpTo(TopicAlphabet, MaxTopicLen) \ {<<>>}

ExampleTopic ==
    <<"A","I"," ","&"," ","E","d","u","c","a","t","i","o","n","!">>

\* the topics of the full runs
RunTopics == {ExampleTopic, <<"a">>, <<"a", "!">>}

VideoUrl == "https://youtu.be/v"

\* the run inputs: topic, and video_url absent, empty or given
RunInputs ==
    {[topic |-> t] : t \in RunTopics}
    \cup {[topic |-> t, video_url |-> u] : t \in RunTopics, u \in {"", VideoUrl}}

\* the RunnableConfig values of the full runs: none, without and with overrides
RunConfigs ==
    {EmptyDict,
     [configurable |-> EmptyDict],
     [configurable |-> [search_temperature |-> Num("0.9")]],
     [configurable |-> [search_temperature |-> Num("0.1"),
                        synthesis_temperature |-> Num("0.5"),
                        podcast_script_temperature |-> Num("0.9"),
                        tts_model |-> Str("tts-2")]]}

\* the environments of the full runs
RunEnvirons == {EmptyDict, [SYNTHESIS_TEMPERATURE |-> Str("0.7")]}

EmptyFS == [n \in {} |-> WavContent(FALSE, <<>>, <<>>)]

\* a file system that already holds a recording under each run topic's name
OldFS ==
    [n \in {PodcastFilename(t) : t \in RunTopics} |->
        WavContent(TRUE, OldAudio, WaveFormat(Defaults))]

----------------------------------------------------------------------------
(* The full run *)

InitRuns ==
    /\ pc = [r \in Runs |-> "idle"]
    /\ config = [r \in Runs |-> EmptyDict]
    /\ state = [r \in Runs |-> EmptyDict]
    /\ configuration = [r \in Runs |-> EmptyDict]
    /\ calls = [r \in Runs |-> <<>>]
    /\ entered = [r \in Runs |-> <<>>]
    /\ routed = [r \in Runs |-> <<>>]
    /\ error = [r \in Runs |-> NoError]
    /\ output = [r \in Runs |-> NoOutput]

Init ==
    /\ environ \in RunEnvirons
    /\ files \in {EmptyFS, OldFS}
    /\ InitRuns

\* graph.invoke(input, config): the state is created from the input and the
\* edge START -> search_research is followed
Invoke(r) ==
    /\ pc[r] = "idle"
    /\ \E inp \in RunInputs, cfg \in RunConfigs :
          /\ state' = [state EXCEPT ![r] = inp]
          /\ config' = [config EXCEPT ![r] = cfg]
    /\ pc' = [pc EXCEPT ![r] = "search_research"]
    /\ UNCHANGED <<environ, files, configuration, calls, entered, routed,
                   error, output>>

SearchResearch(r) ==
    /\ pc[r] = "search_research"
    /\ \E lo \in LlmOutcomes :
          EngineStep(r, "search_research",
                     search_research_node(state[r], config[r], environ, files, lo),
                     TRUE)

AnalyzeVideo(r) ==
    /\ pc[r] = "analyze_video"
    /\ \E lo \in LlmOutcomes :
          EngineStep(r, "analyze_video",
                     analyze_video_node(state[r], config[r], environ, files, lo),
                     FALSE)

CreateReport(r) ==
    /\ pc[r] = "create_report"
    /\ \E lo \in LlmOutcomes :
          EngineStep(r, "create_report",
                     create_report_node(state[r], config[r], environ, files, lo),
                     FALSE)

CreatePodcast(r) ==
    /\ pc[r] = "create_podcast"
    /\ \E lo \in LlmOutcomes, to \in TtsOutcomes, fso \in FsOutcomes :
          EngineStep(r, "create_podcast",
                     create_podcast_node(state[r], config[r], environ, files,
                                         lo, to, fso),
                     FALSE)

Next ==
    \/ Invoke(FirstRun)
    \/ SearchResearch(FirstRun)
    \/ AnalyzeVideo(FirstRun)
    \/ CreateReport(FirstRun)
    \/ CreatePodcast(FirstRun)

Spec == Init /\ [][Next]_vars

\* invoke is a synchronous loop: a started run takes its next step, and so
\* does the caller that is about to invoke
SpecLive == Init /\ [][Next]_vars /\ WF_vars(Next)

----------------------------------------------------------------------------
(* Runs of the engine, and calls of analyze_video_node by a caller other *)
(* than the engine, on a state as the Search node leaves it              *)

CalledStates ==
    {Merge(inp, [search_text |-> s, search_sources_text |-> SourcesSentinel]) :
        inp \in RunInputs, s \in {"", "findings"}}

InitCalled ==
    /\ pc = [r \in Runs |-> IF r = FirstRun THEN "called" ELSE "idle"]
    /\ config \in {[r \in Runs |-> IF r = FirstRun THEN cfg ELSE EmptyDict] :
                      cfg \in RunConfigs}
    /\ state \in {[r \in Runs |-> IF r = FirstRun THEN st ELSE EmptyDict] :
                     st \in CalledStates}
    /\ configuration = [r \in Runs |-> EmptyDict]
    /\ calls = [r \in Runs |-> <<>>]
    /\ entered = [r \in Runs |-> <<>>]
    /\ routed = [r \in Runs |-> <<>>]
    /\ error = [r \in Runs |-> NoError]
    /\ output = [r \in Runs |-> NoOutput]

InitDirect ==
    /\ environ \in RunEnvirons
    /\ files \in {EmptyFS, OldFS}
    /\ InitRuns \/ InitCalled

\* analyze_video_node(state, config) called directly: the update it returns
\* is kept with the state it was called on
CallAnalyzeVideo(r) ==
    /\ pc[r] = "called"
    /\ \E lo \in LlmOutcomes :
          LET res == analyze_video_node(state[r], config[r], environ, files, lo)
          IN  /\ entered' = [entered EXCEPT ![r] = Append(@, "analyze_video")]
              /\ calls' = [calls EXCEPT ![r] = @ \o res.calls]
              /\ configuration' =
                    [configuration EXCEPT ![r] =
                        from_runnable_config(config[r], environ)]
              /\ state' = [state EXCEPT ![r] = Merge(@, res.value)]
              /\ pc' = [pc EXCEPT ![r] = IF res.raised THEN "failed"
                                         ELSE "returned"]
              /\ error' = [error EXCEPT ![r] =
                              IF res.raised
                              THEN [node |-> "analyze_video", kind |-> res.kind]
                              ELSE @]
    /\ UNCHANGED <<environ, files, config, routed, output>>

NextDirect ==
    \/ Invoke(FirstRun)
    \/ SearchResearch(FirstRun)
    \/ AnalyzeVideo(FirstRun)
    \/ CreateReport(FirstRun)
    \/ CreatePodcast(FirstRun)
    \/ CallAnalyzeVideo(FirstRun)

SpecDirect == InitDirect /\ [][NextDirect]_vars

----------------------------------------------------------------------------
(* Runs over every bounded topic, with the default configuration *)

TopicInputs ==
    {[topic |-> t] : t \in Topics}
    \cup {[topic |-> t, video_url |-> VideoUrl] : t \in Topics}

InitTopics ==
    /\ environ = EmptyDict
    /\ files = EmptyFS
    /\ InitRuns

\* graph.invoke(input) without a config
InvokeTopic(r) ==
    /\ pc[r] = "idle"
    /\ \E inp \in TopicInputs : state' = [state EXCEPT ![r] = inp]
    /\ pc' = [pc EXCEPT ![r] = "search_research"]
    /\ UNCHANGED <<environ, files, config, configuration, calls, entered,
                   routed, error, output>>

NextTopics ==
    \/ InvokeTopic(FirstRun)
    \/ SearchResearch(FirstRun)
    \/ AnalyzeVideo(FirstRun)
    \/ CreateReport(FirstRun)
    \/ CreatePodcast(FirstRun)

SpecTopics == InitTopics /\ [][NextTopics]_vars

----------------------------------------------------------------------------
(* Two runs of the same process, in any interleaving of their nodes *)

\* the inputs of each of the two runs: the second run may repeat the topic
\* of the first or take one that differs by a stripped character
PairInputs(r) ==
    LET topics == IF r = FirstRun THEN {<<"a">>} ELSE {<<"a">>, <<"a", "!">>}
    IN  {[topic |-> t] : t \in topics}
        \cup {[topic |-> t, video_url |-> VideoUrl] : t \in topics}

\* graph.invoke(input) of run r, without a config
InvokePair(r) ==
    /\ pc[r] = "idle"
    /\ \E inp \in PairInputs(r) : state' = [state EXCEPT ![r] = inp]
    /\ pc' = [pc EXCEPT ![r] = "search_research"]
    /\ UNCHANGED <<environ, files, config, configuration, calls, entered,
                   routed, error, output>>

NextPair ==
    \E r \in Runs :
        \/ InvokePair(r)
        \/ SearchResearch(r)
        \/ AnalyzeVideo(r)
        \/ CreateReport(r)
        \/ CreatePodcast(r)

SpecPair == InitTopics /\ [][NextPair]_vars

----------------------------------------------------------------------------
(* Observations used by the properties *)

\* the adapter and purpose of each call of run r, in order
CallKinds(r) ==
    [i \in 1 .. Len(calls[r]) |-> <<calls[r][i].adapter, calls[r][i].purpose>>]

IsPrefix(s, t) == Len(s) <= Len(t) /\ s = SubSeq(t, 1, Len(s))

\* the positions of node n in the invocation order of run r
Entries(r, n) == {i \in 1 .. Len(entered[r]) : entered[r][i] = n}

\* the calls of run r that did o
CallsWith(r, o) == {i \in 1 .. Len(calls[r]) : calls[r][i].outcome = o}

CallsWithVideo ==
    << <<"llm", "search">>, <<"llm", "video_analysis">>,
       <<"llm", "report_synthesis">>, <<"llm", "dialogue">>,
       <<"tts", "speech">> >>

CallsWithoutVideo ==
    << <<"llm", "search">>, <<"llm", "report_synthesis">>,
       <<"llm", "dialogue">>, <<"tts", "speech">> >>

----------------------------------------------------------------------------
(* C1 *)

\* C1: a run that completes made exactly the calls search, video analysis,
\* report synthesis, dialogue, TTS when its video_url is non-empty, and
\* search, report synthesis, dialogue, TTS otherwise; at every moment the
\* calls made so far are a prefix of that sequence; with a video_url the
\* Video Analysis node ran exactly once, before the Report node.
C1_CallSequence ==
    \A r \in Runs :
        LET expected == IF HasVideoUrl(state[r]) THEN CallsWithVideo
                        ELSE CallsWithoutVideo
        IN  /\ IsPrefix(CallKinds(r), expected)
            /\ pc[r] = "end" =>
                  /\ CallKinds(r) = expected
                  /\ HasVideoUrl(state[r]) =>
                        /\ Cardinality(Entries(r, "analyze_video")) = 1
                        /\ \A i \in Entries(r, "analyze_video"),
                              j \in Entries(r, "create_report") : i < j

\* a completed run with a video_url and its five calls
C1_Witness ==
    \E r \in Runs :
        /\ pc[r] = "end"
        /\ HasVideoUrl(state[r])
        /\ Len(calls[r]) = 5
        /\ Entries(r, "analyze_video") # {}

----------------------------------------------------------------------------
(* C2 *)

\* C2: in a run whose video_url is absent or empty the Video Analysis node is
\* never invoked, the state the Report node is about to read has no
\* video_text or the sentinel, and the synthesis prompt the Report node built
\* embeds the empty default or the sentinel as video text.
C2_NoVideoPath ==
    \A r \in Runs :
        (pc[r] # "idle" /\ ~HasVideoUrl(state[r])) =>
            /\ Entries(r, "analyze_video") = {}
            /\ pc[r] = "create_report" =>
                  \/ "video_text" \notin DOMAIN state[r]
                  \/ state[r]["video_text"] = NoVideoSentinel
            /\ \A i \in 1 .. Len(calls[r]) :
                  calls[r][i].purpose = "report_synthesis" =>
                      calls[r][i].prompt[3] \in {"", NoVideoSentinel}

\* a run without video whose Report node has made its call
C2_Witness ==
    \E r \in Runs :
        /\ ~HasVideoUrl(state[r])
        /\ "video_url" \in DOMAIN state[r]
        /\ \E i \in 1 .. Len(calls[r]) : calls[r][i].purpose = "report_synthesis"

----------------------------------------------------------------------------
(* C3 *)

\* C3: a call that raised is the last call of its run and was made once, the
\* node that made it is the last node invoked, and the run has failed; when
\* the call of the Search node raised, there is no TTS call and the file
\* system is as it was before the run.
C3_FailureStops ==
    \A r \in Runs :
        \A i \in CallsWith(r, "raise") :
            /\ i = Len(calls[r])
            /\ pc[r] = "failed"
            /\ error[r].node = entered[r][Len(entered[r])]
            /\ Cardinality(Entries(r, error[r].node)) = 1
            /\ Cardinality({j \in 1 .. Len(calls[r]) :
                              calls[r][j].purpose = calls[r][i].purpose}) = 1
            /\ calls[r][i].purpose = "search" =>
                  /\ entered[r] = <<"search_research">>
                  /\ \A j \in 1 .. Len(calls[r]) : calls[r][j].adapter # "tts"
                  /\ files \in {EmptyFS, OldFS}

\* a run whose Search call raised
C3_Witness ==
    \E r \in Runs :
        /\ pc[r] = "failed"
        /\ error[r].node = "search_research"
        /\ CallsWith(r, "raise") = {1}

----------------------------------------------------------------------------
(* C4 *)

\* C4: a response without its expected content (an empty completion, a TTS
\* response without audio payload) is the last call of its run, the run has
\* failed at that node and returned no output.
C4_InvalidResponseFatal ==
    \A r \in Runs :
        \A i \in CallsWith(r, "empty") \cup CallsWith(r, "no_payload")
                 \cup CallsWith(r, "null_data") :
            /\ i = Len(calls[r])
            /\ pc[r] = "failed"
            /\ ~output[r].returned

----------------------------------------------------------------------------
(* C5 *)

\* the name the Podcast node of run r writes to
TargetFile(r) == PodcastFilename(state[r]["topic"])

\* C5: after a run whose file write failed, the target file does not exist
\* or is as it was before the run, or it holds the complete audio; and the
\* run is failed.
C5_WriteAllOrNothing ==
    \A r \in Runs :
        (error[r].node = "create_podcast" /\ error[r].kind = "OSError") =>
            /\ pc[r] = "failed"
            /\ \/ files \in {EmptyFS, OldFS}
               \/ /\ TargetFile(r) \in DOMAIN files
                  /\ files[TargetFile(r)].header
                  /\ files[TargetFile(r)].frames = AudioData

----------------------------------------------------------------------------
(* C6 *)

\* the nodes a completed run has invoked, in order
FullPath(st) ==
    IF HasVideoUrl(st)
    THEN <<"search_research", "analyze_video", "create_report", "create_podcast">>
    ELSE <<"search_research", "create_report", "create_podcast">>

\* C6: a run has returned an output only if it is at the end, no node raised
\* and the nodes of its path were each invoked; the output then has the four
\* output fields; a run in which a node raised has returned nothing.
C6_OutputOnlyOnSuccess ==
    \A r \in Runs :
        /\ output[r].returned =>
              /\ pc[r] = "end"
              /\ error[r] = NoError
              /\ CallsWith(r, "raise") = {}
              /\ entered[r] = FullPath(state[r])
              /\ DOMAIN output[r].value = OutputFields
        /\ (error[r] # NoError \/ CallsWith(r, "raise") # {} \/ pc[r] = "failed") =>
              /\ ~output[r].returned
              /\ DOMAIN output[r].value = {}

\* a run that failed in the Podcast node, after the Report node had produced
\* report and synthesis_text, and that returned nothing
C6_Witness ==
    \E r \in Runs :
        /\ pc[r] = "failed"
        /\ error[r].node = "create_podcast"
        /\ {"report", "synthesis_text"} \subseteq DOMAIN state[r]
        /\ ~output[r].returned

----------------------------------------------------------------------------
(* C7 *)

\* the value field f takes when an override wins over the environment
\* variable and the environment variable over the default
OverrideFirst(cfg, env, f) ==
    LET overrides == Configurable(cfg)
        resolved == IF f \in DOMAIN overrides THEN overrides[f]
                    ELSE DictGet(env, Upper[f], PyNone)
    IN  IF Truthy(resolved) THEN resolved ELSE Defaults[f]

\* C7: every field of the Configuration a node resolved has the value that
\* the precedence override, environment variable, default gives it.
C7_OverrideWins ==
    \A r \in Runs :
        DOMAIN configuration[r] # {} =>
            \A f \in Fields :
                configuration[r][f] = OverrideFirst(config[r], environ, f)

----------------------------------------------------------------------------
(* C8 *)

\* the characters the statement keeps: [A-Za-z0-9 _-]
AsciiKept == AsciiLetters \cup AsciiDigits \cup {" ", "_", "-"}

\* the characters kept when alphanumeric is meant as str.isalnum means it
AlnumKept == AsciiKept \cup NonAsciiAlnum

\* 'research_podcast_' + s + '.wav', s being the topic without the
\* characters outside Kept, cut after its last non-whitespace character,
\* each space turned into an underscore
ClaimedFilename(topic, Kept) ==
    LET InKept(c) == c \in Kept
        kept == SelectSeq(topic, InKept)
        ends == {i \in 1 .. Len(kept) : kept[i] \notin Whitespace}
        last == IF ends = {} THEN 0
                ELSE CHOOSE i \in ends : \A j \in ends : j <= i
        sanitized == [i \in 1 .. last |->
                         IF kept[i] = " " THEN "_" ELSE kept[i]]
    IN  <<"research_podcast_">> \o sanitized \o <<".wav">>

\* the only file run r has created is name, and name is the file name its
\* Podcast node returned
NamedFile(r, name) ==
    /\ DOMAIN files # {} => DOMAIN files = {name}
    /\ "podcast_filename" \in DOMAIN state[r] =>
          /\ state[r]["podcast_filename"] = name
          /\ output[r].value["podcast_filename"] = name
          /\ DOMAIN files = {name}

\* C8 as amended: the podcast file name is 'research_podcast_' + s + '.wav'
\* where s is the topic without every character that is neither
\* alphanumeric in the sense of str.isalnum (non-ASCII letters and digits
\* are alphanumeric) nor space, underscore or hyphen, then without trailing
\* whitespace, then with each space replaced by an underscore; it depends
\* on the topic only.
C8_FilenameOfTopic ==
    \A r \in Runs :
        pc[r] # "idle" =>
            NamedFile(r, ClaimedFilename(state[r]["topic"], AlnumKept))

\* C8 as stated: every character outside [A-Za-z0-9 _-] is removed
C8_FilenameOfTopic_Original ==
    \A r \in Runs :
        pc[r] # "idle" =>
            NamedFile(r, ClaimedFilename(state[r]["topic"], AsciiKept))

\* a completed run on a topic with a non-ASCII letter, a space that ends up
\* trailing and a stripped character
C8_Witness ==
    \E r \in Runs :
        /\ pc[r] = "end"
        /\ state[r]["topic"] = <<"U+00E9", " ", "&">>
        /\ state[r]["podcast_filename"] = <<"research_podcast_", "U+00E9", ".wav">>

----------------------------------------------------------------------------
(* C9 *)

ExampleFilenameTwoUnderscores ==
    <<"research_podcast_", "A","I","_","_","E","d","u","c","a","t","i","o","n",
      ".wav">>

ExampleFilenameOneUnderscore ==
    <<"research_podcast_", "A","I","_","E","d","u","c","a","t","i","o","n",
      ".wav">>

\* the Podcast node of run r wrote the audio to name and returned name
WroteAndReturned(r, name) ==
    /\ state[r]["podcast_filename"] = name
    /\ output[r].value["podcast_filename"] = name
    /\ name \in DOMAIN files
    /\ files[name].frames = AudioData

\* C9 as amended: for the topic 'AI & Education!' the Podcast node writes to
\* and returns 'research_podcast_AI__Education.wav': each of the two spaces
\* around the stripped '&' becomes an underscore.
C9_ExampleFilename ==
    \A r \in Runs :
        (pc[r] = "end" /\ state[r]["topic"] = ExampleTopic) =>
            WroteAndReturned(r, ExampleFilenameTwoUnderscores)

\* C9 as stated: the name is 'research_podcast_AI_Education.wav'
C9_ExampleFilename_Original ==
    \A r \in Runs :
        (pc[r] = "end" /\ state[r]["topic"] = ExampleTopic) =>
            WroteAndReturned(r, ExampleFilenameOneUnderscore)

\* a completed run on the topic 'AI & Education!'
C9_Witness ==
    \E r \in Runs :
        /\ pc[r] = "end"
        /\ state[r]["topic"] = ExampleTopic
        /\ output[r].returned

----------------------------------------------------------------------------
(* C10 *)

\* C10: the call of the Search node carries the search_temperature of the
\* Configuration the node resolved.
C10_SearchTemperature ==
    \A r \in Runs :
        \A i \in 1 .. Len(calls[r]) :
            calls[r][i].purpose = "search" =>
                calls[r][i].temperature =
                    from_runnable_config(config[r], environ)["search_temperature"]

----------------------------------------------------------------------------
(* C11 *)

\* the two states have the same video_url: absent in both, or the same string
SameVideoUrl(s, t) ==
    /\ ("video_url" \in DOMAIN s) = ("video_url" \in DOMAIN t)
    /\ "video_url" \in DOMAIN s => s["video_url"] = t["video_url"]

\* the Search node of run r has returned
SearchReturned(r) ==
    /\ Len(entered[r]) >= 1
    /\ error[r].node # "search_research"

\* C11: the router is evaluated at most once per run, exactly when the
\* Search node has returned and before any other node; it selects Video
\* Analysis iff video_url is present and non-empty; two runs with the same
\* video_url got the same decision, whatever their topics and search texts.
C11_RouterByVideoUrl ==
    \A r \in Runs :
        /\ Len(routed[r]) <= 1
        /\ (Len(routed[r]) = 1) = SearchReturned(r)
        /\ routed[r] # <<>> =>
              /\ entered[r][1] = "search_research"
              /\ routed[r][1] = IF HasVideoUrl(state[r]) THEN "analyze_video"
                                ELSE "create_report"
              /\ Len(entered[r]) >= 2 => entered[r][2] = routed[r][1]
        /\ \A o \in Runs :
              (routed[r] # <<>> /\ routed[o] # <<>>
               /\ SameVideoUrl(state[r], state[o])) => routed[r] = routed[o]

\* two routed runs with the same non-empty video_url, different topics and
\* different search texts
C11_Witness ==
    \E r \in Runs, o \in Runs :
        /\ routed[r] # <<>> /\ routed[o] # <<>>
        /\ HasVideoUrl(state[r])
        /\ SameVideoUrl(state[r], state[o])
        /\ state[r]["topic"] # state[o]["topic"]
        /\ state[r]["search_text"] # state[o]["search_text"]

----------------------------------------------------------------------------
(* C12 *)

\* the transition table; idle stands for Start
TransitionTable ==
    {<<"idle", "search_research">>,
     <<"search_research", "analyze_video">>,
     <<"search_research", "create_report">>,
     <<"analyze_video", "create_report">>,
     <<"create_report", "create_podcast">>,
     <<"create_podcast", "end">>}

\* a step of run r follows the table or aborts the run, and enters no node a
\* second time
TableStep(r) ==
    /\ pc'[r] # pc[r] =>
          \/ <<pc[r], pc'[r]>> \in TransitionTable
          \/ pc[r] \in Nodes /\ pc'[r] = "failed" /\ error'[r] # NoError
    /\ entered'[r] # entered[r] =>
          /\ entered'[r] = Append(entered[r], pc[r])
          /\ pc[r] \in Nodes
          /\ Entries(r, pc[r]) = {}

\* C12: every step of a run follows the transition table (or aborts the run
\* with an error) and enters no node twice, and a started run eventually
\* reaches End unless an adapter failed.
C12_TableAndTermination ==
    /\ [][\A r \in Runs : TableStep(r)]_vars
    /\ \A r \in Runs :
          (pc[r] = "search_research") ~> (pc[r] = "end" \/ error[r] # NoError)

\* a run that reached End through all four nodes
C12_Witness ==
    \E r \in Runs :
        /\ pc[r] = "end"
        /\ error[r] = NoError
        /\ entered[r] = <<"search_research", "analyze_video", "create_report",
                          "create_podcast">>

----------------------------------------------------------------------------
(* C13 *)

\* the fields the statement gives each node to produce
Produces(node) ==
    CASE node = "search_research" -> {"search_text", "search_sources_text"}
      [] node = "analyze_video" -> {"video_text"}
      [] node = "create_report" -> {"report", "synthesis_text"}
      [] node = "create_podcast" -> {"podcast_script", "podcast_filename"}

\* a step of a started run r keeps every field the state has, with its
\* value, and adds only fields of the node that ran
FrameStep(r) ==
    pc[r] # "idle" =>
        /\ \A k \in DOMAIN state[r] :
              /\ k \in DOMAIN state'[r]
              /\ state'[r][k] = state[r][k]
        /\ (DOMAIN state'[r]) \ (DOMAIN state[r]) # {} =>
              /\ pc[r] \in Nodes
              /\ entered'[r] = Append(entered[r], pc[r])
              /\ (DOMAIN state'[r]) \ (DOMAIN state[r]) = Produces(pc[r])

\* C13: a node's update adds the fields that node produces and leaves every
\* field already in the state unchanged; hence topic and video_url keep
\* their input values and a written field keeps its value to the end.
C13_FrameOfUpdates ==
    [][\A r \in Runs : FrameStep(r)]_vars

\* a completed run with a video_url: all nine fields are in the state
C13_Witness ==
    \E r \in Runs :
        /\ pc[r] = "end"
        /\ DOMAIN state[r] =
              {"topic", "video_url", "search_text", "search_sources_text",
               "video_text", "report", "synthesis_text", "podcast_script",
               "podcast_filename"}
        /\ state[r]["video_url"] = VideoUrl

----------------------------------------------------------------------------
(* C14 *)

\* the node that produces field k
ProducerOf(k) == CHOOSE n \in Nodes : k \in Produces(n)

\* the i-th node run r invoked read field k after the producer of k had run
ReadAfterProduced(r, i, k) ==
    \E j \in 1 .. (i - 1) : entered[r][j] = ProducerOf(k)

\* every field in the state of run r that is not an input was produced by
\* its one producer
WrittenByProducer(r) ==
    \A k \in (DOMAIN state[r]) \ InputFields :
        Cardinality(Entries(r, ProducerOf(k))) = 1

\* C14 as stated: no node has read a produced field before its producer ran,
\* video_text included, on both paths
C14_ReadAfterWrite_Original ==
    \A r \in Runs :
        /\ WrittenByProducer(r)
        /\ \A i \in 1 .. Len(entered[r]) :
              \A k \in Reads(entered[r][i]) \ InputFields :
                  ReadAfterProduced(r, i, k)

\* C14 as amended: each field is written by exactly one node; no node reads
\* search_text or search_sources_text before the Search node has run, nor,
\* in a run with a video_url, video_text before the Video Analysis node has
\* run; in a run without video_url video_text has no producer: the Report
\* and Podcast nodes read it while it is absent and take the default ''.
C14_ReadAfterWrite ==
    \A r \in Runs :
        /\ WrittenByProducer(r)
        /\ \A i \in 1 .. Len(entered[r]) :
              \A k \in Reads(entered[r][i]) \ InputFields :
                  (k # "video_text" \/ HasVideoUrl(state[r])) =>
                      ReadAfterProduced(r, i, k)
        /\ (pc[r] # "idle" /\ ~HasVideoUrl(state[r])) =>
              /\ "video_text" \notin DOMAIN state[r]
              /\ \A i \in 1 .. Len(calls[r]) :
                    calls[r][i].purpose \in {"report_synthesis", "dialogue"} =>
                        calls[r][i].prompt[3] = ""

\* a run without video_url whose Report and Podcast nodes have both read
\* video_text
C14_Witness ==
    \E r \in Runs :
        /\ pc[r] = "end"
        /\ ~HasVideoUrl(state[r])
        /\ \E i \in 1 .. Len(calls[r]) :
              calls[r][i].purpose = "dialogue" /\ calls[r][i].prompt[3] = ""

----------------------------------------------------------------------------
(* C15 *)

\* C15: of two started runs with different topics, the one that completed
\* finds the audio file it wrote complete, whatever the other run did, and
\* two completed runs wrote to different files.
C15_RunsIndependent ==
    \A r \in Runs, o \in Runs :
        (r # o /\ pc[r] = "end" /\ pc[o] # "idle"
         /\ state[r]["topic"] # state[o]["topic"]) =>
            /\ TargetFile(r) \in DOMAIN files
            /\ files[TargetFile(r)].header
            /\ files[TargetFile(r)].frames = AudioData
            /\ pc[o] = "end" =>
                  state[r]["podcast_filename"] # state[o]["podcast_filename"]

----------------------------------------------------------------------------
(* C16 *)

\* the files a step created or changed
ChangedFiles ==
    {n \in DOMAIN files' : n \notin DOMAIN files \/ files'[n] # files[n]}

\* the calls of run r, after the step, hold a dialogue call and then a TTS
\* call that both returned a response
DialogueAndSpeechReturned(r) ==
    \E i \in 1 .. Len(calls'[r]), j \in 1 .. Len(calls'[r]) :
        /\ i < j
        /\ calls'[r][i].purpose = "dialogue"
        /\ calls'[r][i].outcome \in {"empty", "text"}
        /\ calls'[r][j].adapter = "tts"
        /\ calls'[r][j].outcome \in {"null_data", "audio"}

\* a step of run r deletes no file; it creates or changes a file only as the
\* first and only invocation of the Podcast node, after the dialogue and the
\* TTS call returned; a run that completes has written exactly the file it
\* names in its output
WriteStep(r) ==
    entered'[r] # entered[r] =>
        /\ DOMAIN files \subseteq DOMAIN files'
        /\ ChangedFiles # {} =>
              /\ pc[r] = "create_podcast"
              /\ Entries(r, "create_podcast") = {}
              /\ DialogueAndSpeechReturned(r)
              /\ Cardinality(ChangedFiles) = 1
        /\ pc'[r] = "end" =>
              /\ ChangedFiles = {output'[r].value["podcast_filename"]}
              /\ files'[output'[r].value["podcast_filename"]].frames = AudioData

\* C16: the audio file is written at most once per run, only by the Podcast
\* node and only after the dialogue call and the TTS call of the run have
\* returned; no other node creates or changes a file; the file written is
\* the podcast_filename of the output.
C16_SingleWrite ==
    [][\A r \in Runs : WriteStep(r)]_vars

\* a completed run that replaced an earlier recording of the same name
C16_Witness ==
    \E r \in Runs :
        /\ pc[r] = "end"
        /\ DOMAIN files = DOMAIN OldFS
        /\ files[state[r]["podcast_filename"]].frames = AudioData

----------------------------------------------------------------------------
(* C17 *)

\* the text the adapter returned to the report synthesis call of run r
SynthesisReturned(r) ==
    LET i == CHOOSE i \in 1 .. Len(calls[r]) :
                 calls[r][i].purpose = "report_synthesis"
    IN  Completion("report_synthesis", calls[r][i].outcome)

\* C17: the report holds, between its fixed parts, the topic after the
\* title, the adapter's synthesis text under the summary heading, the
\* video_url of the state (the empty string when it is absent) on the URL
\* line and the search_sources_text under the sources heading; the
\* synthesis_text field is the adapter's text unchanged.
C17_ReportContents ==
    \A r \in Runs :
        "report" \in DOMAIN state[r] =>
            LET report == state[r]["report"]
            IN  /\ Len(report) = 9
                /\ report[1] = "# Research Report: "
                /\ report[2] = state[r]["topic"]
                /\ report[4] = SynthesisReturned(r)
                /\ report[6] = IF "video_url" \in DOMAIN state[r]
                               THEN state[r]["video_url"] ELSE ""
                /\ report[8] = state[r]["search_sources_text"]
                /\ report[8] = SourcesSentinel
                /\ state[r]["synthesis_text"] = SynthesisReturned(r)
                /\ pc[r] = "end" => output[r].value["report"] = report

\* a report of a run with a video_url and a non-empty synthesis
C17_Witness ==
    \E r \in Runs :
        /\ "report" \in DOMAIN state[r]
        /\ state[r]["report"][6] = VideoUrl
        /\ state[r]["report"][4] = "synthesis"
        /\ state[r]["topic"] = ExampleTopic

----------------------------------------------------------------------------
(* C18 *)

\* two calls carry the same request
SameRequest(c, d) ==
    /\ c.adapter = d.adapter
    /\ c.purpose = d.purpose
    /\ c.model = d.model
    /\ c.temperature = d.temperature
    /\ c.voices = d.voices
    /\ c.prompt = d.prompt

\* the adapters answered the same request of runs r and o in the same way
SameResponses(r, o) ==
    \A i \in 1 .. Len(calls[r]), j \in 1 .. Len(calls[o]) :
        SameRequest(calls[r][i], calls[o][j]) =>
            calls[r][i].outcome = calls[o][j].outcome

\* runs r and o completed on the same input with the same settings
SameCompletedRuns(r, o) ==
    /\ r # o
    /\ pc[r] = "end" /\ pc[o] = "end"
    /\ state[r]["topic"] = state[o]["topic"]
    /\ SameVideoUrl(state[r], state[o])
    /\ config[r] = config[o]
    /\ SameResponses(r, o)

\* C18: two completed runs with the same topic, video_url and settings, to
\* which the adapters gave the same response for the same request, returned
\* the same report and the same podcast_filename, in whatever order their
\* nodes ran and whatever file the earlier one left.
C18_SameInputSameOutput ==
    \A r \in Runs, o \in Runs :
        SameCompletedRuns(r, o) =>
            /\ output[r].value["report"] = output[o].value["report"]
            /\ output[r].value["podcast_filename"] =
                  output[o].value["podcast_filename"]

\* two such runs, with a video_url
C18_Witness ==
    \E r \in Runs, o \in Runs :
        /\ SameCompletedRuns(r, o)
        /\ HasVideoUrl(state[r])
        /\ output[r].value["synthesis_text"] = "synthesis"

----------------------------------------------------------------------------
(* C19 *)

\* run r made a video analysis call
VideoCallMade(r) ==
    \E i \in 1 .. Len(calls[r]) : calls[r][i].purpose = "video_analysis"

\* run r is a run of the engine: it began with the Search node
EngineDriven(r) == entered[r] # <<>> /\ entered[r][1] = "search_research"

\* C19: when the Video Analysis node was invoked on a state without a
\* non-empty video_url it made no text-generation call and returned the
\* sentinel as video_text; in a run of the engine the node is invoked only
\* with a non-empty video_url, so it made its call and the sentinel never
\* came from the guard.
C19_GuardOfVideoNode ==
    \A r \in Runs :
        Entries(r, "analyze_video") # {} =>
            /\ ~HasVideoUrl(state[r]) =>
                  /\ ~VideoCallMade(r)
                  /\ error[r] = NoError
                  /\ state[r]["video_text"] = NoVideoSentinel
            /\ HasVideoUrl(state[r]) => VideoCallMade(r)
            /\ EngineDriven(r) =>
                  /\ HasVideoUrl(state[r])
                  /\ routed[r] = <<"analyze_video">>
                  /\ "video_text" \in DOMAIN state[r] =>
                        state[r]["video_text"] # NoVideoSentinel

\* the node, called on a state with an empty video_url, returned the sentinel
C19_Witness ==
    \E r \in Runs :
        /\ pc[r] = "returned"
        /\ "video_url" \in DOMAIN state[r]
        /\ ~HasVideoUrl(state[r])
        /\ state[r]["video_text"] = NoVideoSentinel
        /\ calls[r] = <<>>

====
